---- MODULE Spec2Model ----
(***************************************************************************)
(* Model of the AEMET OpenData download layer of app-aemet_data_analyzer.  *)
(*                                                                         *)
(* The endpoint adapters are sequential retry loops around a two-step      *)
(* protocol (GET the endpoint, then GET the "datos" URL it answers with).  *)
(* The remote server is the environment: every response (status code,     *)
(* body, connection error) is chosen nondeterministically.                 *)
(***************************************************************************)
EXTENDS Integers, Sequences, FiniteSets, TLC

(***************************************************************************)
(* Bounds of the model.                                                    *)
(***************************************************************************)
\* number of chunk URLs handed to get_historical_data
NumUrls == 2
\* largest number of rows in a datos array payload
MaxRows == 1
\* the per-chunk counter of initial GETs saturates here
MaxTrack == 23

(***************************************************************************)
(* Program constants.                                                      *)
(***************************************************************************)
\* download_history_observation: get_historical_data(max_retries = 20, wait_time = 10)
max_retries == 20
wait_time == 10
\* the single-request adapters: max_retries = 10, time.sleep(5)
single_max_retries == 10
single_wait == 5
\* time.sleep(60) after an HTTP 429 in get_historical_data
backoff_429_ordinary == wait_time
backoff_429 == 60

\* XML documents left in the warnings data directory by an earlier call
MaxOldMembers == 2

Adapters == {"historical", "today", "stations", "normals", "extremes", "warnings"}

VARIABLES
    adapter,     \* which entry point is running
    pc,          \* position of the running adapter
    count,       \* get_historical_data: number of the chunk being processed
    retries,     \* the retry counter of the running loop
    data,        \* get_historical_data: the accumulated table (sequence of rows)
    attempts,    \* initial GETs issued for the current URL (saturating)
    last,        \* the last response that was handled
    slept,       \* seconds slept since the last initial response was received
    lastSleep,   \* argument of the most recent time.sleep call (0: none yet)
    vals,        \* normals/extremes: the value table and the pass that assigned it (0: unbound)
    dataBound,   \* normals: the local `data` (datos response): "unbound", "ok" (200), "bad"
    onlyFail,    \* every response so far was a connection error or a non-200 status
    announced,   \* the caller's message sink was called in this pass before the GET
    result,      \* what the entry point handed to its caller
    directorio,  \* download_aemet_warnings: the warnings data directory
    date_ini,    \* get_dates_for_requests: start of the requested interval
    date_end,    \* get_dates_for_requests: end of the requested interval
    dates,       \* get_dates_for_requests: the returned windows (<<>>: not called yet)
    df_cols,     \* normals/extremes parsing: the columns of the fetched value table
    metadata,    \* normals/extremes parsing: the fetched metadata table
    parsed,      \* normals/extremes parsing: the tables handed to the caller
    coord,       \* _parse_coordinate: the input text, one character per element
    parsed_coord, \* _parse_coordinate: the outcome of the call
    xml_files,   \* get_df_warnings: the documents of the archive, in archive order
    df_warnings, \* get_df_warnings: the outcome of the call
    date,        \* plot_aemet_warnings: the date argument
    now,         \* plot_aemet_warnings: the current instant, pd.to_datetime("today")
    plotted,     \* plot_aemet_warnings: the outcome of the call
    dedup_in,    \* drop_duplicates: the frame the step is first applied to
    dedup_out,   \* drop_duplicates: the outputs of the successive applications
    df_raw,      \* _convert_columns_to_numeric: the frame passed in (column -> cells)
    df_numeric   \* _convert_columns_to_numeric: the outcome of the call

dateVars == <<date_ini, date_end, dates>>
tableVars == <<df_cols, metadata, parsed>>
coordVars == <<coord, parsed_coord>>
warnVars == <<xml_files, df_warnings, date, now, plotted>>
dedupVars == <<dedup_in, dedup_out>>
numVars == <<df_raw, df_numeric>>

\* the state of the pure functions, untouched by the adapters
pureVars == <<dateVars, tableVars, coordVars, warnVars, dedupVars, numVars>>

\* the state of the adapters, untouched by the pure functions
adapterVars == <<adapter, pc, count, retries, data, attempts, last, slept, lastSleep,
                 vals, dataBound, onlyFail, announced, result, directorio>>

vars == <<adapterVars, pureVars>>

(***************************************************************************)
(* Server responses.                                                       *)
(***************************************************************************)
\* A response: a connection error, or an HTTP status with a body.
\*   body "none"      not looked at (status other than 200)
\*        "blank"     empty or whitespace-only text
\*        "malformed" text that is not JSON
\*        "keyless"   well-formed JSON without the field the code indexes
\*        "object"    a JSON object with the fields estado and descripcion
\*                    (and datos / metadatos when estado is 200); as a datos
\*                    payload it has `rows` entries in list-valued fields
\*                    (rows = 0: scalar fields only, an error descriptor)
\*        "array"     a JSON array of `rows` records
\*   estado           the object's estado field (0: a falsy value)
\*   desc             "nodata": descripcion starts with "No hay datos"
Resp(s, b, e, d, n) ==
    [err |-> FALSE, status |-> s, body |-> b, estado |-> e, desc |-> d, rows |-> n]

ConnError ==
    [err |-> TRUE, status |-> 0, body |-> "none", estado |-> 0, desc |-> "other", rows |-> 0]

InitialResponses ==
    {ConnError}
    \cup {Resp(200, b, 0, "other", 0) : b \in {"blank", "malformed", "keyless"}}
    \cup {Resp(200, "object", 200, "other", 0)}
    \cup {Resp(200, "object", 404, d, 0) : d \in {"nodata", "other"}}
    \cup {Resp(s, "none", 0, "other", 0) : s \in {401, 404, 429, 500}}

DatosResponses ==
    {ConnError}
    \cup {Resp(200, "array", 0, "other", n) : n \in 0..MaxRows}
    \cup {Resp(200, "object", e, "other", n) : e \in {0, 404}, n \in 0..MaxRows}
    \cup {Resp(200, b, 0, "other", 0) : b \in {"keyless", "blank"}}
    \cup {Resp(s, "none", 0, "other", 0) : s \in {404, 429, 500}}

NoResp ==
    [kind |-> "none", err |-> FALSE, status |-> 0, body |-> "none",
     estado |-> 0, desc |-> "other", rows |-> 0]

Handled(k, r) ==
    [kind |-> k, err |-> r.err, status |-> r.status, body |-> r.body,
     estado |-> r.estado, desc |-> r.desc, rows |-> r.rows]

Sat(n) == IF n < MaxTrack THEN n + 1 ELSE n

\* pd.DataFrame(data_json): one row per record of the payload r, tagged with
\* the request k it answers
Rows(k, r) == [i \in 1..r.rows |-> [chunk |-> k, src |-> r.body, estado |-> r.estado, i |-> i]]

\* pd.DataFrame(data_json) raises ValueError ("If using all scalar values,
\* you must pass an index") on an object of scalars; arrays and objects with
\* list-valued fields are accepted
FrameOk(r) == r.body = "array" \/ (r.body = "object" /\ r.rows > 0)


(***************************************************************************)
(* Effects of handling one response: where control goes next, by how much  *)
(* the retry counter grows, how long the adapter sleeps, whether the       *)
(* payload is appended to / returned as the table.                         *)
(***************************************************************************)
Eff(next, inc, sleep, take) == [next |-> next, inc |-> inc, sleep |-> sleep, take |-> take]

\* response.json() on text that is not JSON raises JSONDecodeError: a
\* requests.exceptions.RequestException from requests 2.27 on (caught by the
\* enclosing except clause), a plain ValueError before (propagates).
JsonErrorEffects(caught) == {caught, Eff("raised", 0, 0, FALSE)}

\* message(...) is the caller-supplied sink in every adapter but
\* get_stations_info, which takes no sink and writes with st.write
UsesSink(a) == a # "stations"

\* no pure function has been called
DatesIdle ==
    /\ date_ini = [y |-> 0, m |-> 0, d |-> 0]
    /\ date_end = [y |-> 0, m |-> 0, d |-> 0]
    /\ dates = <<>>

TablesIdle ==
    /\ df_cols = <<>>
    /\ metadata = [campos |-> <<>>]
    /\ parsed = [fn |-> "none", cols |-> <<>>, info |-> <<>>]

CoordIdle ==
    /\ coord = <<>>
    /\ parsed_coord = [kind |-> "pending", arcsec |-> 0]

WarnIdle ==
    /\ xml_files = <<>>
    /\ df_warnings = [kind |-> "pending", rows |-> <<>>]
    /\ date = [kind |-> "none", day |-> 0, hour |-> 0]
    /\ now = [day |-> 0, hour |-> 0]
    /\ plotted = [kind |-> "pending", rows |-> <<>>, drawn |-> <<>>]

DedupIdle ==
    /\ dedup_in = <<>>
    /\ dedup_out = <<>>

NumericIdle ==
    /\ df_raw = <<>>
    /\ df_numeric = [kind |-> "pending", cols |-> <<>>]

PureIdle == DatesIdle /\ TablesIdle /\ CoordIdle /\ WarnIdle /\ DedupIdle /\ NumericIdle

(***************************************************************************)
(* The warnings data directory (Path(__file__).parent / "data")            *)
(***************************************************************************)
\* A regular file of the directory: a .tar archive (docs: the number of XML
\* documents it holds, -1 when its content is not a tar archive) or an
\* extracted XML document (id: its name). call tells which run of
\* download_aemet_warnings wrote it.
TarFile(c, n) == [kind |-> "tar", id |-> 0, docs |-> n, call |-> c]
XmlFile(c, i) == [kind |-> "xml", id |-> i, docs |-> 0, call |-> c]

\* the same path: the archive name carries the second of its download, a
\* document's name is its bulletin's
SamePath(f, g) == f.kind = g.kind /\ f.id = g.id /\ (f.kind = "tar" => f.call = g.call)

\* what an earlier call can have left behind
OldFileSets ==
    {{}} \cup
    {{TarFile("earlier", n)} \cup {XmlFile("earlier", i) : i \in 1..n} : n \in 0..MaxOldMembers}
    \cup {{TarFile("earlier", -1)}}

\* unlinked: the files this call has removed
NoDirectory == [exists |-> FALSE, files |-> {}, unlinked |-> {}]

DataDirectories ==
    {NoDirectory} \cup {[exists |-> TRUE, files |-> fs, unlinked |-> {}] : fs \in OldFileSets}

\* no adapter is running
AdapterIdle ==
    /\ adapter = "none"
    /\ pc = "idle"
    /\ count = 0
    /\ retries = 0
    /\ data = <<>>
    /\ attempts = 0
    /\ last = NoResp
    /\ slept = 0
    /\ lastSleep = 0
    /\ vals = [pass |-> 0, rows |-> <<>>]
    /\ dataBound = "unbound"
    /\ onlyFail = TRUE
    /\ announced = FALSE
    /\ result = [kind |-> "pending", rows |-> <<>>]
    /\ directorio = NoDirectory

Init ==
    /\ PureIdle
    /\ announced = FALSE
    /\ adapter \in Adapters
    /\ pc = CASE adapter = "historical" -> "for"
              [] adapter = "warnings" -> "entry"
              [] OTHER -> "while"
    /\ directorio \in IF adapter = "warnings" THEN DataDirectories ELSE {NoDirectory}
    /\ count = 0
    /\ retries = 0
    /\ data = <<>>
    /\ attempts = 0
    /\ last = NoResp
    /\ slept = 0
    /\ lastSleep = 0
    /\ vals = [pass |-> 0, rows |-> <<>>]
    /\ dataBound = "unbound"
    /\ onlyFail = TRUE
    /\ result = [kind |-> "pending", rows |-> <<>>]

HistLoopGuard_lax(r) == r <= max_retries + 1

(***************************************************************************)
(* get_historical_data                                                     *)
(***************************************************************************)
\* while retries <= max_retries
HistLoopGuard(r) == r <= max_retries

ApiErrorEffect_break(r) == Eff("after", 0, 0, FALSE)

ApiErrorEffect_retry(r) == Eff("while", 1, wait_time, FALSE)

\* response_json['estado'] != 200: break when descripcion starts with
\* "No hay datos", else retries += 1 and time.sleep(wait_time)
ApiErrorEffect(r) ==
    IF r.desc = "nodata" THEN Eff("after", 0, 0, FALSE)
    ELSE Eff("while", 1, wait_time, FALSE)

\* the branches of the handling of the initial response (lines 148-219)
HistInitialEffects(r) ==
    IF r.err THEN {Eff("while", 1, wait_time, FALSE)}
    ELSE IF r.status = 200 THEN
        CASE r.body = "blank"     -> {Eff("while", 1, wait_time, FALSE)}
          [] r.body = "malformed" -> JsonErrorEffects(Eff("while", 1, wait_time, FALSE))
          [] r.body = "keyless"   -> {Eff("raised", 0, 0, FALSE)}
          [] OTHER ->
               IF r.estado = 200 THEN {Eff("datos", 0, 0, FALSE)}
               ELSE {ApiErrorEffect(r)}
    ELSE IF r.status = 404 THEN {Eff("while", 0, 0, FALSE)}
    ELSE IF r.status = 401 THEN {Eff("while", 0, 0, FALSE)}
    ELSE IF r.status = 429 THEN {Eff("while", 1, backoff_429, FALSE)}
    ELSE {Eff("while", 0, 0, FALSE)}

IsErrorObject_list(r) == r.body = "array" /\ r.estado # 0

\* type(data_json) == dict and data_json['estado']
IsErrorObject(r) == r.body = "object" /\ r.estado # 0

\* the branches of the handling of the datos response (lines 156-189)
HistDatosEffects(r) ==
    IF r.err THEN {Eff("while", 1, wait_time, FALSE)}
    ELSE IF r.status = 200 THEN
        CASE r.body = "blank"   -> JsonErrorEffects(Eff("while", 1, wait_time, FALSE))
          [] r.body = "keyless" -> {Eff("raised", 0, 0, FALSE)}
          [] OTHER -> IF IsErrorObject(r)
                      THEN {Eff("while", 1, wait_time, FALSE)}
                      ELSE IF FrameOk(r) THEN {Eff("after", 0, 0, TRUE)}
                      ELSE {Eff("raised", 0, 0, FALSE)}
    ELSE IF r.status = 404 THEN {Eff("while", 0, 0, FALSE)}
    ELSE {Eff("while", 1, wait_time, FALSE)}

\* for url in urls['urls']: count += 1; retries = 1
HistNextUrl ==
    /\ adapter = "historical" /\ pc = "for" /\ count < NumUrls
    /\ count' = count + 1
    /\ retries' = 1
    /\ attempts' = 0
    /\ pc' = "while"
    /\ UNCHANGED <<pureVars, directorio, announced, adapter, data, last, slept, lastSleep, vals, dataBound, onlyFail, result>>

\* while retries <= max_retries: ...; requests.get(url, timeout = 10)
HistAttempt ==
    /\ adapter = "historical" /\ pc = "while" /\ HistLoopGuard(retries)
    /\ attempts' = Sat(attempts)
    /\ announced' = UsesSink(adapter)
    /\ pc' = "get"
    /\ UNCHANGED <<pureVars, directorio, adapter, count, retries, data, last, slept, lastSleep, vals, dataBound, onlyFail, result>>

\* the while condition fails: the chunk's retries are exhausted
HistExhausted ==
    /\ adapter = "historical" /\ pc = "while" /\ ~HistLoopGuard(retries)
    /\ pc' = "after"
    /\ UNCHANGED <<pureVars, directorio, announced, adapter, count, retries, data, attempts, last, slept, lastSleep, vals, dataBound, onlyFail, result>>

HistApply(e, kind, r, base) ==
    /\ pc' = e.next
    /\ retries' = retries + e.inc
    /\ slept' = base + e.sleep
    /\ lastSleep' = IF e.sleep > 0 THEN e.sleep ELSE lastSleep
    /\ data' = IF e.take THEN data \o Rows(count, r) ELSE data
    /\ last' = Handled(kind, r)
    /\ result' = IF e.next = "raised" THEN [kind |-> "raised", rows |-> <<>>] ELSE result
    /\ onlyFail' = (onlyFail /\ (r.err \/ r.status # 200))
    /\ UNCHANGED <<pureVars, directorio, announced, adapter, count, attempts, vals, dataBound>>

\* the initial response arrives and is handled
HistHandleInitial ==
    /\ adapter = "historical" /\ pc = "get"
    /\ \E r \in InitialResponses : \E e \in HistInitialEffects(r) :
          HistApply(e, "initial", r, 0)

\* the datos response arrives and is handled
HistHandleDatos ==
    /\ adapter = "historical" /\ pc = "datos"
    /\ \E r \in DatosResponses : \E e \in HistDatosEffects(r) :
          HistApply(e, "datos", r, slept)

HistCooldown_skipped ==
    /\ adapter = "historical" /\ pc = "after"
    /\ pc' = "for"
    /\ UNCHANGED <<pureVars, directorio, announced, adapter, count, retries, data, attempts, last, slept, lastSleep,
                   vals, dataBound, onlyFail, result>>

\* time.sleep(wait_time/2) after the while loop
HistCooldown ==
    /\ adapter = "historical" /\ pc = "after"
    /\ slept' = slept + (wait_time \div 2)
    /\ lastSleep' = wait_time \div 2
    /\ pc' = "for"
    /\ UNCHANGED <<pureVars, directorio, announced, adapter, count, retries, data, attempts, last, vals, dataBound, onlyFail, result>>

\* return data; download_history_observation hands it (or an empty table) on
HistReturn ==
    /\ adapter = "historical" /\ pc = "for" /\ count = NumUrls
    /\ pc' = "done"
    /\ result' = [kind |-> "table", rows |-> data]
    /\ UNCHANGED <<pureVars, directorio, announced, adapter, count, retries, data, attempts, last, slept, lastSleep, vals, dataBound, onlyFail>>

HistNext ==
    \/ HistNextUrl
    \/ HistAttempt
    \/ HistExhausted
    \/ HistHandleInitial
    \/ HistHandleDatos
    \/ HistCooldown
    \/ HistReturn

(***************************************************************************)
(* The single-request adapters: get_today_observation, get_stations_info,  *)
(* get_station_normal_vals, get_station_extreme_vals, get_current_warnings *)
(***************************************************************************)
Singles == Adapters \ {"historical"}

MetaResponses ==
    {ConnError}
    \cup {Resp(200, "array", 0, "other", 1)}
    \cup {Resp(200, "blank", 0, "other", 0)}
    \cup {Resp(500, "array", 0, "other", 1)}
    \cup {Resp(404, "none", 0, "other", 0)}

SingleLoopGuard_strict(r) == r < single_max_retries

\* while retries <= max_retries
SingleLoopGuard(r) == r <= single_max_retries

Retry1 == Eff("while", 1, single_wait, FALSE)

Raised == Eff("raised", 0, 0, FALSE)

\* the handling of the initial response
SingleInitialEffects(a, r) ==
    IF r.err THEN {Retry1}
    ELSE IF r.status = 200 THEN
        CASE r.body \in {"blank", "malformed"} -> JsonErrorEffects(Retry1)
          [] r.body = "keyless" -> {Raised}
          [] OTHER ->
               IF r.estado = 200 THEN {Eff("datos", 0, 0, FALSE)}
               \* an error descriptor has no datos field: KeyError
               ELSE IF a = "stations" THEN {Retry1}
               ELSE IF a = "normals" THEN {Eff("while", 2, 2 * single_wait, FALSE)}
               ELSE {Raised}
    ELSE {Retry1}

\* the handling of the datos response
SingleDatosEffects(a, r) ==
    CASE a = "today" ->
           IF r.err THEN {Retry1}
           ELSE IF r.status = 200 THEN
               IF r.body = "blank" THEN JsonErrorEffects(Retry1)
               ELSE IF FrameOk(r) THEN {Eff("done", 0, 0, TRUE)}
               ELSE {Raised}
           ELSE {Retry1}
      [] a = "stations" ->
           IF r.err THEN {Retry1}
           ELSE IF r.status = 200 THEN
               IF FrameOk(r) THEN {Eff("done", 0, 0, TRUE)} ELSE {Retry1}
           ELSE {Retry1}
      [] a = "normals" ->
           IF r.err THEN {Eff("meta", 1, single_wait, FALSE)}
           ELSE IF r.status = 200 THEN
               IF FrameOk(r) THEN {Eff("meta", 0, 0, TRUE)}
               ELSE {Eff("meta", 1, single_wait, FALSE)}
           ELSE {Eff("meta", 1, single_wait, FALSE)}
      [] a = "extremes" ->
           IF r.err THEN {Eff("meta", 1, single_wait, FALSE)}
           ELSE IF r.status = 200 THEN
               IF r.body = "blank" THEN JsonErrorEffects(Eff("meta", 1, single_wait, FALSE))
               ELSE {Eff("meta", 0, 0, TRUE)}
           ELSE {Eff("meta", 1, single_wait, FALSE)}
      [] OTHER ->
           IF r.err THEN {Retry1}
           ELSE IF r.status = 200 THEN {Eff("done", 0, 0, TRUE)}
           ELSE {Retry1}

\* the local `data` of get_station_normal_vals after the datos GET
DataBoundAfter(r) ==
    IF r.err THEN dataBound
    ELSE IF r.status = 200 THEN "ok" ELSE "bad"

\* the handling of the metadatos response
MetaEffects(a, r) ==
    IF a = "normals" THEN
        IF r.err THEN {Retry1}
        \* if data.status_code == 200 (the datos response, not the metadatos one)
        ELSE IF dataBound = "unbound" THEN {Retry1}
        ELSE IF dataBound = "ok" THEN
            IF r.body = "array" /\ vals.pass # 0 THEN {Eff("done", 0, 0, TRUE)}
            ELSE {Retry1}
        ELSE {Retry1}
    ELSE
        IF r.err THEN {Retry1}
        ELSE IF r.status = 200 THEN
            IF r.body = "blank" THEN JsonErrorEffects(Retry1)
            ELSE IF vals.pass # 0 THEN {Eff("done", 0, 0, TRUE)}
            ELSE {Raised}
        ELSE {Retry1}

\* what the entry point hands to its caller once the loop has returned data
SingleResult(a, r) ==
    CASE a \in {"today", "stations"} -> [kind |-> "table", rows |-> Rows(attempts, r)]
      [] a \in {"normals", "extremes"} -> [kind |-> "table", rows |-> vals.rows]
      [] OTHER -> [kind |-> "none", rows |-> <<>>]

\* what the entry point does with the None of an exhausted loop
GiveUpResult(a) ==
    CASE a = "today" -> [kind |-> "none", rows |-> <<>>]
      [] a = "warnings" -> [kind |-> "none", rows |-> <<>>]
      [] OTHER -> [kind |-> "raised", rows |-> <<>>]

\* file.is_file()
IsRegularFile(f) == f.kind \in {"tar", "xml"}

Unlink_archives(fs) == {f \in fs : f.kind # "tar"}

\* for file in directorio.iterdir(): if file.is_file(): file.unlink()
Unlink(fs) == {f \in fs : ~IsRegularFile(f)}

\* download_aemet_warnings before the request: an existing directory is
\* emptied of its files, a missing one is created
Prepare(d) ==
    IF d.exists
    THEN [exists |-> TRUE, files |-> Unlink(d.files), unlinked |-> d.files \ Unlink(d.files)]
    ELSE [exists |-> TRUE, files |-> {}, unlinked |-> {}]

\* open(path, "wb").write(...): the file replaces one of the same path
WriteFile(fs, f) == {g \in fs : ~SamePath(f, g)} \cup {f}

\* the payload of the datos response seen as a tar archive
ArchiveDocs(r) == IF r.body = "array" THEN r.rows ELSE -1

\* save_dir.mkdir(parents=True, exist_ok=True); f.write(response_datos.content)
SaveArchive(d, r) ==
    [exists |-> TRUE,
     files |-> WriteFile(d.files, TarFile("this", ArchiveDocs(r))),
     unlinked |-> d.unlinked]

\* the members of every .tar file of the directory; a file that is not a tar
\* archive raises TarError, which is caught, and yields nothing
Members(fs) ==
    UNION {{XmlFile("this", i) : i \in 1..f.docs} : f \in {g \in fs : g.kind = "tar"}}

\* extract_all_tar_files(directorio)
ExtractAll(d) ==
    [exists |-> d.exists,
     files |-> {g \in d.files : \A x \in Members(d.files) : ~SamePath(x, g)}
                  \cup Members(d.files),
     unlinked |-> d.unlinked]

\* download_aemet_warnings up to its call of get_current_warnings
DownloadAemetWarnings ==
    /\ adapter = "warnings" /\ pc = "entry"
    /\ directorio' = Prepare(directorio)
    /\ pc' = "while"
    /\ UNCHANGED <<pureVars, announced, adapter, count, retries, data, attempts, last, slept, lastSleep, vals, dataBound, onlyFail, result>>

\* while retries <= max_retries: ...; requests.get(url)
SingleAttempt ==
    /\ adapter \in Singles /\ pc = "while" /\ SingleLoopGuard(retries)
    /\ attempts' = Sat(attempts)
    /\ announced' = UsesSink(adapter)
    /\ pc' = "get"
    /\ UNCHANGED <<pureVars, directorio, adapter, count, retries, data, last, slept, lastSleep, vals, dataBound, onlyFail, result>>

\* the loop condition fails and the function falls off its end (None)
SingleGiveUp ==
    /\ adapter \in Singles /\ pc = "while" /\ ~SingleLoopGuard(retries)
    /\ pc' = IF GiveUpResult(adapter).kind = "raised" THEN "raised" ELSE "done"
    /\ result' = GiveUpResult(adapter)
    /\ directorio' = IF adapter = "warnings" THEN ExtractAll(directorio) ELSE directorio
    /\ UNCHANGED <<pureVars, announced, adapter, count, retries, data, attempts, last, slept, lastSleep, vals, dataBound, onlyFail>>

SingleApply(e, kind, r, base) ==
    /\ pc' = e.next
    /\ retries' = retries + e.inc
    /\ slept' = base + e.sleep
    /\ lastSleep' = IF e.sleep > 0 THEN single_wait ELSE lastSleep
    /\ last' = Handled(kind, r)
    /\ onlyFail' = (onlyFail /\ (r.err \/ r.status # 200))
    /\ result' = CASE e.next = "raised" -> [kind |-> "raised", rows |-> <<>>]
                   [] e.next = "done" -> SingleResult(adapter, r)
                   [] OTHER -> result
    /\ UNCHANGED <<pureVars, announced, adapter, count, data, attempts>>

SingleHandleInitial ==
    /\ adapter \in Singles /\ pc = "get"
    /\ \E r \in InitialResponses : \E e \in SingleInitialEffects(adapter, r) :
          /\ SingleApply(e, "initial", r, 0)
          /\ UNCHANGED <<vals, dataBound, directorio>>

SingleHandleDatos ==
    /\ adapter \in Singles /\ pc = "datos"
    /\ \E r \in DatosResponses : \E e \in SingleDatosEffects(adapter, r) :
          /\ SingleApply(e, "datos", r, slept)
          /\ vals' = IF e.next = "meta" /\ e.take
                     THEN [pass |-> attempts,
                           rows |-> IF FrameOk(r) THEN Rows(attempts, r) ELSE <<>>]
                     ELSE vals
          /\ dataBound' = IF adapter = "normals" THEN DataBoundAfter(r) ELSE dataBound
          \* get_current_warnings writes the archive and breaks; the entry
          \* point then extracts it
          /\ directorio' = IF adapter = "warnings" /\ e.next = "done"
                           THEN ExtractAll(SaveArchive(directorio, r))
                           ELSE directorio

SingleHandleMeta ==
    /\ adapter \in {"normals", "extremes"} /\ pc = "meta"
    /\ \E r \in MetaResponses : \E e \in MetaEffects(adapter, r) :
          /\ SingleApply(e, "meta", r, slept)
          /\ UNCHANGED <<vals, dataBound, directorio>>

SingleNext ==
    \/ DownloadAemetWarnings
    \/ SingleAttempt
    \/ SingleGiveUp
    \/ SingleHandleInitial
    \/ SingleHandleDatos
    \/ SingleHandleMeta

Next == HistNext \/ SingleNext


Spec == Init /\ [][Next]_vars

\* The adapters are straight-line sequential code: a step that can be taken
\* is taken.
FairSpec == Spec /\ WF_vars(Next)

(***************************************************************************)
(* Properties                                                              *)
(***************************************************************************)
Hist == adapter = "historical"

\* the response handled by this step / most recently
InitialHandled(r) == r.kind = "initial"
DatosHandled(r) == r.kind = "datos"

\* C1: get_historical_data issues at most max_retries initial GETs for one
\* chunk URL, whatever the server answers.
C1_AtMostMaxRetriesAttempts == Hist => attempts <= max_retries

C2_State ==
    adapter \in {"today", "stations"} =>
        /\ attempts <= single_max_retries + 1
        /\ (pc = "get" => attempts = retries + 1)
        /\ (pc \in {"done", "raised"} /\ retries > single_max_retries =>
                attempts = single_max_retries + 1 /\ result.kind # "table")

C2_Step ==
    adapter \in {"today", "stations"} =>
        /\ (pc = "while" /\ attempts <= single_max_retries => pc' = "get")
        /\ (pc = "datos" /\ ~last'.err /\ last'.status = 200 /\ last'.body = "array" =>
                /\ pc' = "done"
                /\ result' = [kind |-> "table", rows |-> Rows(attempts, last')])

C3_Datos404NextChunk ==
    (Hist /\ pc = "get" /\ DatosHandled(last) /\ ~last.err /\ last.status = 404)
        => attempts = 1

\* C4: when every response was a connection error or a non-200 status, the
\* entry point ends by returning an empty table (no exception, no None).
C4_EmptyTableOnExhaustion ==
    (adapter # "warnings" /\ pc \in {"done", "raised"} /\ onlyFail)
        => result = [kind |-> "table", rows |-> <<>>]

\* C5: no chunk of get_historical_data, whatever its outcome, keeps the later
\* chunks from being requested: the call always comes to its end (and then
\* hands the accumulated payloads to the caller).
C5_EveryChunkReached ==
    /\ [](Hist /\ pc = "done" => result.rows = data)
    /\ (Hist ~> pc \in {"done", "raised"})

\* C6: the chunks of get_historical_data are taken one after the other: the
\* chunk number only ever advances by one, from the head of the for loop, and
\* the head of the for loop is only ever reached from the end of a chunk's
\* processing through the cool-down sleep of wait_time/2; a request is only
\* issued while no other request is awaiting its response.
C6_Step ==
    Hist =>
        /\ (count' # count => count' = count + 1 /\ pc = "for" /\ pc' = "while")
        /\ (pc' = "for" /\ pc # "for" =>
                /\ pc = "after"
                /\ lastSleep' = wait_time \div 2
                /\ slept' = slept + wait_time \div 2)
        /\ (pc' \in {"get", "datos"} /\ pc' # pc => pc \in {"while", "get"})

C6_SequentialWithCooldown == [][C6_Step]_vars

C6_Witness ==
    Hist /\ pc = "get" /\ count = 2 /\ attempts = 1 /\ lastSleep = wait_time \div 2

\* C7: between two consecutive initial GETs for the same chunk URL
\* get_historical_data has slept at least wait_time.
C7_SleepBetweenAttempts ==
    (Hist /\ pc = "get" /\ attempts >= 2) => slept >= wait_time

ErrorBody(r) ==
    /\ ~r.err /\ r.status = 200 /\ r.body = "object"
    /\ \/ InitialHandled(r) /\ r.estado # 200
       \/ DatosHandled(r) /\ r.estado # 0

\* C9 (as stated): a response with HTTP 200 whose body reports an error ends
\* the chunk: no further attempt, nothing appended.
C9_TerminalStep ==
    (Hist /\ pc \in {"get", "datos"} /\ ErrorBody(last'))
        => (pc' = "after" /\ data' = data)

C9_ErrorBodyTerminal == [][C9_TerminalStep]_vars

\* C9 (amended): the chunk ends at once only for an initial response whose
\* estado is not 200 and whose descripcion starts with "No hay datos"; any
\* other error estado on the initial response, and a datos object with a
\* truthy estado, count as one failed attempt: retries grows by one and the
\* adapter sleeps wait_time before asking again. Nothing is appended.
C9_Step ==
    (Hist /\ pc \in {"get", "datos"} /\ ErrorBody(last')) =>
        /\ data' = data
        /\ IF InitialHandled(last') /\ last'.desc = "nodata"
           THEN pc' = "after" /\ retries' = retries
           ELSE /\ pc' = "while" /\ retries' = retries + 1
                /\ lastSleep' = wait_time /\ slept' >= wait_time

C9_State ==
    (Hist /\ pc = "get" /\ ErrorBody(last) /\ InitialHandled(last) /\ last.desc = "nodata")
        => attempts = 1

C9_OnlyNoDataTerminal == []C9_State /\ [][C9_Step]_vars

C9_Witness ==
    /\ Hist /\ pc = "get" /\ count = 2 /\ attempts = 1
    /\ ErrorBody(last) /\ InitialHandled(last) /\ last.desc = "nodata"

\* C10 (as stated): the accumulated table of get_historical_data holds array
\* payloads only.
C10_OnlyArrayPayloads ==
    Hist => \A i \in 1..Len(data) : data[i].src = "array"

\* C10 (amended): get_historical_data never appends a datos object whose
\* estado is truthy; what it appends was received with HTTP 200 on both the
\* initial and the datos request and is an array or an object whose estado
\* is falsy.
C10_State ==
    Hist => \A i \in 1..Len(data) :
        data[i].src = "array" \/ (data[i].src = "object" /\ data[i].estado = 0)

C10_Step ==
    (Hist /\ data' # data) =>
        /\ pc = "datos" /\ InitialHandled(last) /\ last.status = 200 /\ last.estado = 200
        /\ DatosHandled(last') /\ ~last'.err /\ last'.status = 200
        /\ data' = data \o Rows(count, last')

C10_NoErrorObjectAppended == []C10_State /\ [][C10_Step]_vars

C10_Witness ==
    /\ Hist /\ pc = "after" /\ Len(data) = 2
    /\ data[1].src = "array" /\ data[2].src = "object" /\ data[2].chunk = 2


\* C11: in every adapter each pass of the retry loop has called the caller's
\* message sink by the time its HTTP GET is issued.
C11_SinkBeforeGet == pc = "get" => announced


(***************************************************************************)
(* get_dates_for_requests                                                  *)
(***************************************************************************)
\* the calendar years the requested dates are drawn from
FirstYear == 2023
NumYears == 2

\* the days of the month the requested dates are drawn from
DaySample == {1, 2, 15, 28, 29, 30, 31}

IsLeap(y) == (y % 4 = 0 /\ y % 100 # 0) \/ y % 400 = 0

DaysInMonth(y, m) ==
    CASE m \in {1, 3, 5, 7, 8, 10, 12} -> 31
      [] m \in {4, 6, 9, 11} -> 30
      [] OTHER -> IF IsLeap(y) THEN 29 ELSE 28

Date(y, m, d) == [y |-> y, m |-> m, d |-> d]

ValidDates ==
    {Date(y, m, d) : y \in FirstYear..(FirstYear + NumYears - 1), m \in 1..12, d \in DaySample}
        \ {dt \in [y : FirstYear..(FirstYear + NumYears - 1), m : 1..12, d : DaySample] :
              dt.d > DaysInMonth(dt.y, dt.m)}

\* datetime comparison
DateLt(a, b) ==
    \/ a.y < b.y
    \/ a.y = b.y /\ a.m < b.m
    \/ a.y = b.y /\ a.m = b.m /\ a.d < b.d

DateLe(a, b) == a = b \/ DateLt(a, b)

\* dt + relativedelta(months = n), dt + pd.DateOffset(months = n): the day is
\* clipped to the length of the target month
AddMonths(dt, n) ==
    LET total == dt.y * 12 + (dt.m - 1) + n
        y == total \div 12
        m == (total % 12) + 1
    IN  Date(y, m, IF dt.d > DaysInMonth(y, m) THEN DaysInMonth(y, m) ELSE dt.d)

\* relativedelta(dt1, dt2): the whole months from dt2 to dt1, split into
\* years and months (the days are not used by the caller)
RelativeDelta(dt1, dt2) ==
    LET months0 == (dt1.y - dt2.y) * 12 + (dt1.m - dt2.m)
        months == IF DateLt(dt1, dt2)
                  THEN IF DateLt(AddMonths(dt2, months0), dt1) THEN months0 + 1 ELSE months0
                  ELSE IF DateLt(dt1, AddMonths(dt2, months0)) THEN months0 - 1 ELSE months0
        sign == IF months < 0 THEN -1 ELSE 1
        abs == sign * months
    IN  [years |-> sign * (abs \div 12), months |-> sign * (abs % 12)]

NeedsSplit_five(time_diff) == time_diff.years > 0 \/ time_diff.months >= 5

\* if time_diff.years > 0 or time_diff.months >= 6
NeedsSplit(time_diff) == time_diff.years > 0 \/ time_diff.months >= 6

\* the "MS" anchor of pd.date_range: a start that is not the first day of a
\* month is rolled forward to the first day of the next month
RollForward(dt) == IF dt.d = 1 THEN dt ELSE AddMonths(Date(dt.y, dt.m, 1), 1)

\* pd.date_range(date_ini, date_end, freq = "6MS")
RECURSIVE RangeFrom(_, _)
RangeFrom(cur, end) ==
    IF DateLe(cur, end) THEN <<cur>> \o RangeFrom(AddMonths(cur, 6), end) ELSE <<>>

DateRange6MS(start, end) == RangeFrom(RollForward(start), end)

\* strftime("%Y-%m-%dT%H:%M:%SUTC") of a datetime at midnight: the fields of
\* the text Y-m-dTH:M:S and its literal suffix
Strftime(dt) ==
    [Y |-> dt.y, m |-> dt.m, d |-> dt.d, H |-> 0, M |-> 0, S |-> 0, suffix |-> "UTC"]

\* the date a formatted text stands for
DateOf(text) == Date(text.Y, text.m, text.d)

\* the windows get_dates_for_requests returns
Windows(ini, end) ==
    IF NeedsSplit(RelativeDelta(end, ini))
    THEN LET dates_ini == DateRange6MS(ini, end)
         IN  [k \in 1..Len(dates_ini) |->
                 [date_ini |-> Strftime(dates_ini[k]),
                  date_end |-> Strftime(AddMonths(dates_ini[k], 6))]]
    ELSE <<[date_ini |-> Strftime(ini), date_end |-> Strftime(end)]>>

\* a call get_dates_for_requests(date_ini, date_end) with date_ini <= date_end
InitDates ==
    /\ AdapterIdle
    /\ NumericIdle
    /\ TablesIdle
    /\ CoordIdle
    /\ WarnIdle
    /\ DedupIdle
    /\ date_ini \in ValidDates
    /\ date_end \in ValidDates
    /\ DateLe(date_ini, date_end)
    /\ dates = <<>>

GetDatesForRequests ==
    /\ dates = <<>>
    /\ date_ini.y # 0
    /\ dates' = Windows(date_ini, date_end)
    /\ UNCHANGED <<adapterVars, numVars, date_ini, date_end, tableVars, coordVars, warnVars, dedupVars>>

SpecDates == InitDates /\ [][GetDatesForRequests]_vars

\* the requested interval spans at least six calendar months
SixMonthsApart == DateLe(AddMonths(date_ini, 6), date_end)

Returned == dates # <<>>

WinStart(k) == DateOf(dates[k].date_ini)
WinEnd(k) == DateOf(dates[k].date_end)

\* C13: for an interval of at least 6 months the windows start at date_ini,
\* every start is date_ini plus a multiple of 6 months, each window starts
\* where the one before it ends, and no window is longer than 6 months.
C13_WindowsFromDateIni ==
    (Returned /\ SixMonthsApart) =>
        /\ Len(dates) >= 1
        /\ WinStart(1) = date_ini
        /\ \A k \in 1..Len(dates) :
              /\ WinStart(k) = AddMonths(date_ini, 6 * (k - 1))
              /\ DateLe(WinEnd(k), AddMonths(WinStart(k), 6))
              /\ (k > 1 => WinStart(k) = WinEnd(k - 1))

\* C14: for an interval of at least 6 months the last window ends at
\* date_end and no window reaches beyond date_end.
C14_WindowsEndAtDateEnd ==
    (Returned /\ SixMonthsApart) =>
        /\ WinEnd(Len(dates)) = date_end
        /\ \A k \in 1..Len(dates) : DateLe(WinEnd(k), date_end)

\* C15: for an interval of less than 6 months exactly one window is
\* returned, from date_ini to date_end.
C15_SingleWindow ==
    (Returned /\ ~SixMonthsApart) =>
        /\ Len(dates) = 1
        /\ dates[1].date_ini = Strftime(date_ini)
        /\ dates[1].date_end = Strftime(date_end)
        /\ WinStart(1) = date_ini /\ WinEnd(1) = date_end

C15_Witness ==
    /\ Returned /\ ~SixMonthsApart /\ Len(dates) = 1
    /\ RelativeDelta(date_end, date_ini).months = 5
    /\ date_ini.d = 31 /\ date_end.d = 28


(***************************************************************************)
(* download_normal_values / download_extreme_values: parsing of the        *)
(* fetched tables                                                          *)
(***************************************************************************)
\* the longest value table (in columns) and metadata field list
MaxCols == 2
MaxCampos == 2

\* field codes of the value table and of the metadata ids
Codes == {"tm_min", "tm_max", "fecha"}

\* descriptions the metadata gives; "fecha" is also a field code
Descriptions == {"Temperatura minima", "Temperatura maxima", "fecha"}

\* pd.DataFrame(records): one column per key, so the codes are distinct;
\* blank: the column holds an empty string in some row
ValueTables ==
    {t \in UNION {[1..n -> [code : Codes, blank : BOOLEAN]] : n \in 1..MaxCols} :
        \A i, j \in DOMAIN t : t[i].code = t[j].code => i = j}

\* metadata['campos']: a list of {id, descripcion, ...} objects
CamposLists == UNION {[1..n -> [id : Codes, descripcion : Descriptions]] : n \in 1..MaxCampos}

\* parse_normal_values, parse_extreme_values: replace("", nan), dropna(axis=1)
DropNa(cols) ==
    LET kept == SelectSeq(cols, LAMBDA c : ~c.blank)
    IN  [k \in DOMAIN kept |-> kept[k].code]

\* parse_metadata: metadata['campos'].apply(pd.Series), one row per field
parse_metadata(meta) == meta.campos

\* dict_rename[k] = info_df[info_df.id == k]["descripcion"].values[0]
dict_rename(info_df, k) ==
    LET i == CHOOSE i \in DOMAIN info_df :
                 info_df[i].id = k /\ \A j \in 1..(i - 1) : info_df[j].id # k
    IN  info_df[i].descripcion

\* df.rename(dict_rename, axis=1): labels that are keys of the mapping
Rename(names, info_df) ==
    [k \in DOMAIN names |->
        IF \E i \in DOMAIN info_df : info_df[i].id = names[k]
        THEN dict_rename(info_df, names[k])
        ELSE names[k]]

RECURSIVE KeepFirst(_, _)
KeepFirst(names, k) ==
    IF k > Len(names) THEN <<>>
    ELSE (IF \E j \in 1..(k - 1) : names[j] = names[k] THEN <<>> ELSE <<names[k]>>)
             \o KeepFirst(names, k + 1)

DropDuplicated_none(names) == names

\* df.loc[:, ~df.columns.duplicated()]
DropDuplicated(names) == KeepFirst(names, 1)

NormalsColumns_renamed(cols, info_df) == DropDuplicated(Rename(DropNa(cols), info_df))

\* the value table download_normal_values returns
NormalsColumns(cols, info_df) == DropNa(cols)

\* the value table download_extreme_values returns
ExtremesColumns(cols, info_df) == DropDuplicated(Rename(DropNa(cols), info_df))

\* the tables get_station_normal_vals / get_station_extreme_vals fetched
InitTables ==
    /\ AdapterIdle
    /\ NumericIdle
    /\ DatesIdle
    /\ CoordIdle
    /\ WarnIdle
    /\ DedupIdle
    /\ df_cols \in ValueTables
    /\ metadata \in [campos : CamposLists]
    /\ parsed = [fn |-> "none", cols |-> <<>>, info |-> <<>>]

DownloadNormalValues ==
    /\ df_cols # <<>>
    /\ parsed.fn = "none"
    /\ parsed' = [fn |-> "normals",
                  cols |-> NormalsColumns(df_cols, parse_metadata(metadata)),
                  info |-> parse_metadata(metadata)]
    /\ UNCHANGED <<adapterVars, numVars, dateVars, coordVars, warnVars, dedupVars, df_cols, metadata>>

DownloadExtremeValues ==
    /\ df_cols # <<>>
    /\ parsed.fn = "none"
    /\ parsed' = [fn |-> "extremes",
                  cols |-> ExtremesColumns(df_cols, parse_metadata(metadata)),
                  info |-> parse_metadata(metadata)]
    /\ UNCHANGED <<adapterVars, numVars, dateVars, coordVars, warnVars, dedupVars, df_cols, metadata>>

SpecTables == InitTables /\ [][DownloadNormalValues \/ DownloadExtremeValues]_vars

\* the codes of the columns that survive dropna
KeptCodes == {df_cols[k].code : k \in {j \in DOMAIN df_cols : ~df_cols[j].blank}}

MetaIds == {metadata.campos[i].id : i \in DOMAIN metadata.campos}

OutNames == {parsed.cols[k] : k \in DOMAIN parsed.cols}

\* the description the metadata gives first for a code
Described(code) ==
    metadata.campos[CHOOSE i \in DOMAIN metadata.campos :
               metadata.campos[i].id = code /\ \A j \in DOMAIN metadata.campos : metadata.campos[j].id = code => i <= j].descripcion

\* the name a kept column carries after the renaming
NameAfter(code) == IF code \in MetaIds THEN Described(code) ELSE code

\* position of the first kept column whose new name is n
FirstColumn(n) ==
    CHOOSE k \in DOMAIN df_cols :
        /\ ~df_cols[k].blank /\ NameAfter(df_cols[k].code) = n
        /\ \A j \in DOMAIN df_cols :
              (~df_cols[j].blank /\ NameAfter(df_cols[j].code) = n) => k <= j

C17_ExtremesRenamed ==
    parsed.fn = "extremes" =>
        /\ OutNames = {NameAfter(c) : c \in KeptCodes}
        /\ \A p, q \in DOMAIN parsed.cols : parsed.cols[p] = parsed.cols[q] => p = q
        /\ \A p, q \in DOMAIN parsed.cols :
              p < q => FirstColumn(parsed.cols[p]) < FirstColumn(parsed.cols[q])

C17_Witness ==
    /\ parsed.fn = "extremes"
    /\ Cardinality(KeptCodes) = 2
    /\ KeptCodes \subseteq MetaIds
    /\ Len(parsed.cols) = 1
    /\ parsed.cols[1] = "Temperatura minima"


(***************************************************************************)
(* _parse_coordinate                                                       *)
(***************************************************************************)
\* the most characters an input carries after its six field characters
MaxTail == 2

DigitValue ==
    ("0" :> 0) @@ ("1" :> 1) @@ ("2" :> 2) @@ ("3" :> 3) @@ ("4" :> 4) @@
    ("5" :> 5) @@ ("6" :> 6) @@ ("7" :> 7) @@ ("8" :> 8) @@ ("9" :> 9)

IsDigit(c) == c \in DOMAIN DigitValue

\* the two-character fields the inputs are built from: digits, a signed
\* digit, a padded digit and fields with a letter
FieldTexts ==
    {<<"0", "0">>, <<"0", "1">>, <<"1", "5">>, <<"2", "3">>, <<"3", "0">>, <<"4", "0">>,
     <<"-", "1">>, <<" ", "5">>, <<"4", "N">>}

\* the characters that follow the fields
TailChars == {"N", "S", "E", "W", "5"}

TailTexts == UNION {[1..n -> TailChars] : n \in 0..MaxTail}

\* the inputs: three fields and a tail, or a prefix of three fields
CoordTexts ==
    {a \o b \o c \o t : a \in FieldTexts, b \in FieldTexts, c \in FieldTexts, t \in TailTexts}
        \cup {SubSeq(a \o b \o c, 1, n) :
                  a \in FieldTexts, b \in FieldTexts, c \in FieldTexts, n \in 1..5}

\* coord[i:j] of Python: the characters i+1..j that exist
Slice(text, i, j) ==
    SubSeq(text, i + 1, IF j > Len(text) THEN Len(text) ELSE j)

RECURSIVE Strip(_)
Strip(t) ==
    IF t = <<>> THEN t
    ELSE IF t[1] = " " THEN Strip(Tail(t))
    ELSE IF t[Len(t)] = " " THEN Strip(SubSeq(t, 1, Len(t) - 1))
    ELSE t

\* int(text): blanks around the number are stripped, one sign is allowed
Unsigned(t) ==
    LET u == Strip(t) IN IF u # <<>> /\ u[1] \in {"+", "-"} THEN Tail(u) ELSE u

IntOk(t) == Unsigned(t) # <<>> /\ \A i \in DOMAIN Unsigned(t) : IsDigit(Unsigned(t)[i])

RECURSIVE Magnitude(_)
Magnitude(t) ==
    IF t = <<>> THEN 0
    ELSE 10 * Magnitude(SubSeq(t, 1, Len(t) - 1)) + DigitValue[t[Len(t)]]

IntOf(t) ==
    LET u == Strip(t) IN IF u[1] = "-" THEN -Magnitude(Unsigned(t)) ELSE Magnitude(Unsigned(t))

Negative_west(direction) == direction = "W"

\* direction in ['S', 'W']
Negative(direction) == direction \in {"S", "W"}

\* _parse_coordinate(coord); decimal degrees are kept as arc-seconds,
\* 3600 * (degrees + minutes / 60 + seconds / 3600)
ParseCoordinateOf(text) ==
    LET degrees == Slice(text, 0, 2)
        minutes == Slice(text, 2, 4)
        seconds == Slice(text, 4, 6)
    IN  IF ~IntOk(degrees) \/ ~IntOk(minutes) \/ ~IntOk(seconds)
        THEN [kind |-> "ValueError", arcsec |-> 0]
        ELSE LET direction == text[Len(text)]
                 decimal_degrees == 3600 * IntOf(degrees) + 60 * IntOf(minutes) + IntOf(seconds)
             IN  [kind |-> "value",
                  arcsec |-> IF Negative(direction) THEN -decimal_degrees ELSE decimal_degrees]

InitCoord ==
    /\ AdapterIdle
    /\ NumericIdle
    /\ DatesIdle
    /\ TablesIdle
    /\ WarnIdle
    /\ DedupIdle
    /\ coord \in CoordTexts
    /\ parsed_coord = [kind |-> "pending", arcsec |-> 0]

ParseCoordinate ==
    /\ coord # <<>>
    /\ parsed_coord.kind = "pending"
    /\ parsed_coord' = ParseCoordinateOf(coord)
    /\ UNCHANGED <<adapterVars, numVars, dateVars, tableVars, warnVars, dedupVars, coord>>

SpecCoord == InitCoord /\ [][ParseCoordinate]_vars

\* the input has the form DDMMSSH: six digits and a hemisphere letter
WellFormed ==
    /\ Len(coord) = 7
    /\ \A i \in 1..6 : IsDigit(coord[i])
    /\ coord[7] \in {"N", "S", "E", "W"}

TwoDigits(i) == 10 * DigitValue[coord[i]] + DigitValue[coord[i + 1]]

\* C18: for an input DDMMSSH the result is 3600*DD + 60*MM + SS arc-seconds,
\* negated exactly when H is S or W.
C18_DegreesMinutesSeconds ==
    (parsed_coord.kind # "pending" /\ WellFormed) =>
        /\ parsed_coord.kind = "value"
        /\ parsed_coord.arcsec =
               (IF coord[7] \in {"S", "W"} THEN -1 ELSE 1)
                   * (3600 * TwoDigits(1) + 60 * TwoDigits(3) + TwoDigits(5))

\* 403000S gives -40.5 degrees, -145800 arc-seconds
C18_Witness ==
    /\ coord = <<"4", "0", "3", "0", "0", "0", "S">>
    /\ parsed_coord = [kind |-> "value", arcsec |-> -145800]

\* C19: the input 0023015W gives -(0 + 23/60 + 15/3600) degrees, that is
\* -1395 arc-seconds.
C19_EightCharacterExample ==
    (parsed_coord.kind # "pending" /\ coord = <<"0", "0", "2", "3", "0", "1", "5", "W">>) =>
        parsed_coord = [kind |-> "value", arcsec |-> -1395]

\* C20: an input whose length is not 7, or whose first six characters are
\* not all digits, fails with an error.
C20_MalformedRejected ==
    (/\ parsed_coord.kind # "pending"
     /\ (Len(coord) # 7 \/ \E i \in 1..6 : ~IsDigit(coord[i])))
        => parsed_coord.kind = "ValueError"


(***************************************************************************)
(* warnings_plotter: parse_xml_content, get_df_warnings                    *)
(***************************************************************************)
\* the most documents in an archive, info blocks in a document and
\* polygons in an area
MaxDocs == 3
MaxInfos == 2
MaxPolygons == 2

\* hours Europe/Madrid is ahead of UTC (summer time)
madrid_utcoffset == 2

Languages == {"es-ES", "en-GB"}

\* the first parameter of the info blocks of the one-document archives
Severities == {"verde", "amarillo", "naranja"}

\* the alerts the documents speak of
Contents == {"heat", "wind"}

\* a CAP instant: a day, an hour and the offset from UTC its text carries
CapTime(day, hour, utcoffset) == [day |-> day, hour |-> hour, utcoffset |-> utcoffset]

\* an <info> element; parameter holds the texts of the cap:value elements,
\* the second one as its parts between semicolons
Info(lang, sev, c, k) ==
    [language |-> lang,
     areaDesc |-> IF c = "heat" THEN "Campina cordobesa" ELSE "Litoral de Cadiz",
     polygons |-> [j \in 1..k |-> <<c, j>>],
     parameter |-> <<sev,
                     IF c = "heat" THEN <<"AT", "Temperaturas maximas">> ELSE <<"VI", "Vientos">>,
                     IF c = "heat" THEN "40%-70%" ELSE ">70%">>,
     headline |-> IF c = "heat" THEN "Aviso de temperaturas maximas" ELSE "Aviso de vientos",
     description |-> IF c = "heat" THEN "Temperatura maxima de 40 C" ELSE "Rachas maximas de 80 km/h",
     effective |-> CapTime(1, 6, 2),
     onset |-> IF c = "heat" THEN CapTime(1, 13, 2) ELSE CapTime(1, 22, 0),
     expires |-> IF c = "heat" THEN CapTime(1, 21, 2) ELSE CapTime(2, 18, 0),
     certainty |-> "Likely"]

Infos == {Info(l, s, c, k) : l \in Languages, s \in Severities, c \in Contents, k \in 1..MaxPolygons}

\* a document of the archive: text that parses into info blocks, or not
Document(infos) == [wellformed |-> TRUE, infos |-> infos]
Malformed == [wellformed |-> FALSE, infos |-> <<>>]

\* an info block without a <headline> element
NoHeadline(info) == [info EXCEPT !.headline = "missing"]

\* the documents of the one-document archives
RichDocuments == {Document(infos) : infos \in UNION {[1..n -> Infos] : n \in 1..MaxInfos}}

\* the documents of the longer archives: unreadable, without info block,
\* without headline, English only, Spanish only, Spanish and English;
\* "extremo" is no key of severity_map
PlainDocuments ==
    {Malformed,
     Document(<<>>),
     Document(<<NoHeadline(Info("es-ES", "naranja", "heat", 1))>>),
     Document(<<Info("en-GB", "naranja", "heat", 1)>>),
     Document(<<Info("es-ES", "verde", "heat", 1)>>),
     Document(<<Info("es-ES", "naranja", "heat", 1)>>),
     Document(<<Info("es-ES", "naranja", "wind", 1)>>),
     Document(<<Info("es-ES", "rojo", "wind", 1)>>),
     Document(<<Info("es-ES", "extremo", "wind", 1)>>),
     Document(<<Info("es-ES", "amarillo", "heat", 1), Info("en-GB", "amarillo", "heat", 1)>>)}

PlainArchives == UNION {[1..n -> PlainDocuments] : n \in 0..MaxDocs}

Archives == {<<d>> : d \in RichDocuments} \cup PlainArchives

\* severity_map
severity_map == [rojo |-> 3, naranja |-> 2, amarillo |-> 1]

\* df['severity'].map(severity_map).fillna(0).astype(int)
SeverityLevel(severity) ==
    IF severity \in DOMAIN severity_map THEN severity_map[severity] ELSE 0

\* pd.to_datetime(text, utc=True).dt.tz_convert('Europe/Madrid').dt.tz_localize(None)
ToMadrid(t) ==
    LET total == t.day * 24 + t.hour - t.utcoffset + madrid_utcoffset
    IN  [day |-> total \div 24, hour |-> total % 24]

\* warnings.append({...}) for one polygon; label is the row's index label
\* in pd.DataFrame(warnings)
WarningRow(info, j, label) ==
    [label |-> label,
     lang |-> info.language,
     area |-> info.areaDesc,
     headline |-> info.headline,
     polygon |-> info.polygons[j],
     params |-> info.parameter,
     description |-> info.description,
     datetime_emitted |-> info.effective,
     datetime_ini |-> info.onset,
     datetime_end |-> info.expires,
     type_warning |-> info.certainty]

\* for info in infos: for poly in polygons: warnings.append(...)
RECURSIVE WarningRows(_, _, _)
WarningRows(infos, i, label) ==
    IF i > Len(infos) THEN <<>>
    ELSE [j \in 1..Len(infos[i].polygons) |-> WarningRow(infos[i], j, label + j - 1)]
             \o WarningRows(infos, i + 1, label + Len(infos[i].polygons))

\* the columns drop_duplicates compares
DedupKey(row) == <<row.description, row.severity, row.datetime_ini, row.datetime_end>>

RECURSIVE KeepFirstRows(_, _)
KeepFirstRows(rows, k) ==
    IF k > Len(rows) THEN <<>>
    ELSE (IF \E j \in 1..(k - 1) : DedupKey(rows[j]) = DedupKey(rows[k]) THEN <<>> ELSE <<rows[k]>>)
             \o KeepFirstRows(rows, k + 1)

\* drops only the first row that repeats an earlier one
DropDuplicates_one(rows) ==
    IF \E k \in DOMAIN rows : \E j \in 1..(k - 1) : DedupKey(rows[j]) = DedupKey(rows[k])
    THEN LET k == CHOOSE k \in DOMAIN rows :
                      /\ \E j \in 1..(k - 1) : DedupKey(rows[j]) = DedupKey(rows[k])
                      /\ \A i \in 1..(k - 1) :
                            ~\E j \in 1..(i - 1) : DedupKey(rows[j]) = DedupKey(rows[i])
         IN  SubSeq(rows, 1, k - 1) \o SubSeq(rows, k + 1, Len(rows))
    ELSE rows

\* df.drop_duplicates(subset=['description', 'severity', 'datetime_ini', 'datetime_end'])
DropDuplicates(rows) == KeepFirstRows(rows, 1)

Frame(rows) == [kind |-> "frame", rows |-> rows]
Raises(error) == [kind |-> error, rows |-> <<>>]

\* lines 68-76 of parse_xml_content: first is the row with index label 0
Complete(rows, first) ==
    IF Len(first.params) < 3 \/ Len(first.params[2]) < 2 THEN Raises("IndexError")
    ELSE Frame(DropDuplicates(
             [k \in DOMAIN rows |->
                 [rows[k] EXCEPT !.type_warning = first.params[2][2],
                                 !.datetime_ini = ToMadrid(@),
                                 !.datetime_end = ToMadrid(@),
                                 !.datetime_emitted = ToMadrid(@)]
                     @@ [probability |-> first.params[3],
                         severity_level |-> SeverityLevel(rows[k].severity)]]))

\* parse_xml_content(xml_content)
ParseXmlContent(doc) ==
    IF ~doc.wellformed THEN Raises("ParseError")
    ELSE IF \E i \in DOMAIN doc.infos : doc.infos[i].headline = "missing"
    THEN Raises("AttributeError")
    ELSE LET warnings == WarningRows(doc.infos, 1, 0)
             spanish == SelectSeq(warnings, LAMBDA r : r.lang = "es-ES")
         IN  IF warnings = <<>> \/ ~\E k \in DOMAIN spanish : spanish[k].label = 0
             THEN Raises("KeyError")
             ELSE LET first == spanish[CHOOSE k \in DOMAIN spanish : spanish[k].label = 0]
                      severity == first.params[1]
                      with == [k \in DOMAIN spanish |-> spanish[k] @@ [severity |-> severity]]
                      kept == SelectSeq(with, LAMBDA r : r.severity # "verde")
                  IN  IF kept = <<>> THEN Frame(<<>>) ELSE Complete(kept, first)

AfterFailure_break(files, i) == Len(files) + 1

\* except Exception: continue
AfterFailure(files, i) == i + 1

\* the for loop of get_df_warnings from document i on, df the frame so far
RECURSIVE Accumulate(_, _, _)
Accumulate(files, i, df) ==
    IF i > Len(files) THEN df
    ELSE LET warning_area == ParseXmlContent(files[i])
         IN  IF warning_area.kind # "frame"
             THEN Accumulate(files, AfterFailure(files, i), df)
             ELSE Accumulate(files, i + 1, df \o warning_area.rows)

\* get_df_warnings(xml_files): an accumulated frame that is still
\* pd.DataFrame() has none of the datetime columns line 98 selects
GetDfWarningsOf(files) ==
    LET df == Accumulate(files, 1, <<>>)
    IN  IF df = <<>> THEN Raises("KeyError") ELSE [kind |-> "returned", rows |-> df]

InitWarnings ==
    /\ AdapterIdle
    /\ NumericIdle
    /\ DatesIdle
    /\ TablesIdle
    /\ CoordIdle
    /\ DedupIdle
    /\ xml_files \in Archives
    /\ df_warnings = [kind |-> "pending", rows |-> <<>>]
    /\ date = [kind |-> "none", day |-> 0, hour |-> 0]
    /\ now = [day |-> 0, hour |-> 0]
    /\ plotted = [kind |-> "pending", rows |-> <<>>, drawn |-> <<>>]

GetDfWarnings ==
    /\ df_warnings.kind = "pending"
    /\ df_warnings' = GetDfWarningsOf(xml_files)
    /\ UNCHANGED <<adapterVars, numVars, dateVars, tableVars, coordVars, dedupVars,
                   xml_files, date, now, plotted>>

SpecWarnings == InitWarnings /\ [][GetDfWarnings]_vars

(***************************************************************************)
(* warnings_plotter: plot_aemet_warnings, create_map                       *)
(***************************************************************************)
\* the current instants, in the local time of the records
Nows == {[day |-> 1, hour |-> 12], [day |-> 1, hour |-> 22]}

\* the date the page passes: an option of pd.date_range(...).strftime(...),
\* a text
PageDates(today) == {[kind |-> "text", day |-> today, hour |-> 0]}

\* a date given as a pd.Timestamp
Timestamps(today) ==
    {[kind |-> "timestamp", day |-> d, hour |-> h] : d \in {today, today + 1}, h \in {0, 12}}

\* df['datetime_ini'].dt.date <= date.date() and
\* df['datetime_end'].dt.date >= date.date()
OnDate(row, dt) == row.datetime_ini.day <= dt.day /\ row.datetime_end.day >= dt.day

\* date == pd.to_datetime(pd.to_datetime("today").date())
IsToday(dt, instant) == dt.day = instant.day /\ dt.hour = 0

\* df['datetime_end'] >= pd.to_datetime("today")
NotExpired(row, instant) ==
    \/ row.datetime_end.day > instant.day
    \/ row.datetime_end.day = instant.day /\ row.datetime_end.hour >= instant.hour

\* lines 171-176 of plot_aemet_warnings
RetainedRows(rows, dt, instant) ==
    LET df_warnings_date == SelectSeq(rows, LAMBDA r : OnDate(r, dt))
    IN  IF IsToday(dt, instant)
        THEN SelectSeq(df_warnings_date, LAMBDA r : NotExpired(r, instant))
        ELSE df_warnings_date

\* _get_warning_color(severity_level)
get_warning_color(severity_level) ==
    CASE severity_level = 1 -> "#f4e72a"
      [] severity_level = 2 -> "#f4a72a"
      [] severity_level = 3 -> "#f42a2a"
      [] OTHER -> "#ffffff"

\* df_warnings.area.unique(): the areas in the order they first appear
RECURSIVE UniqueAreas(_, _)
UniqueAreas(rows, k) ==
    IF k > Len(rows) THEN <<>>
    ELSE (IF \E j \in 1..(k - 1) : rows[j].area = rows[k].area THEN <<>> ELSE <<rows[k].area>>)
             \o UniqueAreas(rows, k + 1)

MaxLevel_first(warn_area) == warn_area[1].severity_level

\* warn_area['severity_level'].max()
MaxLevel(warn_area) ==
    CHOOSE m \in {warn_area[k].severity_level : k \in DOMAIN warn_area} :
        \A k \in DOMAIN warn_area : warn_area[k].severity_level <= m

\* the folium.Polygon calls of create_map (lines 106-140), one per area
CreateMap(rows) ==
    LET areas == UniqueAreas(rows, 1)
    IN  [a \in DOMAIN areas |->
            LET warn_area == SelectSeq(rows, LAMBDA r : r.area = areas[a])
            IN  [area |-> areas[a],
                 locations |-> warn_area[1].polygon,
                 color |-> get_warning_color(MaxLevel(warn_area))]]

\* plot_aemet_warnings(date, tar_bytes) up to the polygons of create_map
PlotOf(files, dt, instant) ==
    LET df == GetDfWarningsOf(files)
    IN  IF df.kind # "returned" THEN [kind |-> df.kind, rows |-> <<>>, drawn |-> <<>>]
        ELSE IF dt.kind = "text" THEN [kind |-> "AttributeError", rows |-> <<>>, drawn |-> <<>>]
        ELSE [kind |-> "mapped",
              rows |-> RetainedRows(df.rows, dt, instant),
              drawn |-> CreateMap(RetainedRows(df.rows, dt, instant))]

InitPlot ==
    /\ AdapterIdle
    /\ NumericIdle
    /\ DatesIdle
    /\ TablesIdle
    /\ CoordIdle
    /\ DedupIdle
    /\ xml_files \in PlainArchives
    /\ df_warnings = [kind |-> "pending", rows |-> <<>>]
    /\ now \in Nows
    /\ date \in PageDates(now.day) \cup Timestamps(now.day)
    /\ plotted = [kind |-> "pending", rows |-> <<>>, drawn |-> <<>>]

PlotAemetWarnings ==
    /\ plotted.kind = "pending"
    /\ df_warnings' = GetDfWarningsOf(xml_files)
    /\ plotted' = PlotOf(xml_files, date, now)
    /\ UNCHANGED <<adapterVars, numVars, dateVars, tableVars, coordVars, dedupVars, xml_files, date, now>>

SpecPlot == InitPlot /\ [][PlotAemetWarnings]_vars

(***************************************************************************)
(* Properties of the warnings parser                                       *)
(***************************************************************************)
WarningsDone == df_warnings.kind # "pending"
WarningsReturned == df_warnings.kind = "returned"

\* the document is readable and every info block has its required elements
WellFormedDocument(doc) ==
    doc.wellformed /\ \A i \in DOMAIN doc.infos : doc.infos[i].headline # "missing"

\* the severity the info block itself declares
OwnSeverity(info) == info.parameter[1]

\* the record carries the attributes of the info block
BuiltFrom(row, info) ==
    /\ row.lang = info.language
    /\ row.area = info.areaDesc
    /\ row.headline = info.headline
    /\ row.description = info.description
    /\ row.datetime_ini = ToMadrid(info.onset)
    /\ row.datetime_end = ToMadrid(info.expires)

\* C21: the records come only from es-ES info blocks, and every es-ES
\* non-green block of a well-formed document has a record, wherever the
\* block stands among the blocks of its document.
C21_SpanishBlocksRepresented ==
    WarningsDone =>
        /\ \A k \in DOMAIN df_warnings.rows : df_warnings.rows[k].lang = "es-ES"
        /\ \A d \in DOMAIN xml_files :
              WellFormedDocument(xml_files[d]) =>
                  \A i \in DOMAIN xml_files[d].infos :
                      LET info == xml_files[d].infos[i]
                      IN  (info.language = "es-ES" /\ OwnSeverity(info) # "verde") =>
                              \E k \in DOMAIN df_warnings.rows : BuiltFrom(df_warnings.rows[k], info)

\* one green and one orange es-ES alert
GreenAndOrange(a, b) ==
    /\ a.language = "es-ES" /\ b.language = "es-ES"
    /\ {OwnSeverity(a), OwnSeverity(b)} = {"verde", "naranja"}

OrangeOf(a, b) == IF OwnSeverity(a) = "naranja" THEN a ELSE b

\* the two alerts of the archive, when it holds exactly two info blocks in
\* one well-formed document or in two
TwoAlerts ==
    IF Len(xml_files) = 1 /\ WellFormedDocument(xml_files[1]) /\ Len(xml_files[1].infos) = 2
    THEN xml_files[1].infos
    ELSE IF /\ Len(xml_files) = 2
            /\ \A d \in 1..2 : WellFormedDocument(xml_files[d]) /\ Len(xml_files[d].infos) = 1
    THEN <<xml_files[1].infos[1], xml_files[2].infos[1]>>
    ELSE <<>>

\* C22: of one green and one orange alert, in either order and in one
\* document or two, exactly one record is returned, the orange one.
C22_OnlyOrangeReturned ==
    (/\ WarningsDone
     /\ TwoAlerts # <<>>
     /\ GreenAndOrange(TwoAlerts[1], TwoAlerts[2])
     /\ \A a \in 1..2 : Len(TwoAlerts[a].polygons) = 1) =>
        /\ WarningsReturned
        /\ Len(df_warnings.rows) = 1
        /\ \A k \in DOMAIN df_warnings.rows :
              /\ df_warnings.rows[k].severity = "naranja"
              /\ BuiltFrom(df_warnings.rows[k], OrangeOf(TwoAlerts[1], TwoAlerts[2]))

\* C23: no two records of the returned set share description, severity,
\* onset and expiry.
C23_NoDuplicateRecords ==
    WarningsReturned =>
        \A j, k \in DOMAIN df_warnings.rows :
            DedupKey(df_warnings.rows[j]) = DedupKey(df_warnings.rows[k]) => j = k

\* C24: an es-ES non-green info block with k polygons has k records in the
\* record set of its document, one per polygon, with the block's attributes.
C24_OneRecordPerPolygon ==
    (WarningsDone /\ Len(xml_files) = 1 /\ WellFormedDocument(xml_files[1])) =>
        \A i \in DOMAIN xml_files[1].infos :
            LET info == xml_files[1].infos[i]
            IN  (info.language = "es-ES" /\ OwnSeverity(info) # "verde") =>
                    \A j \in DOMAIN info.polygons :
                        \E k \in DOMAIN df_warnings.rows :
                            /\ BuiltFrom(df_warnings.rows[k], info)
                            /\ df_warnings.rows[k].polygon = info.polygons[j]

\* the info block the row with this index label was built from
InfoOfLabel(infos, label) ==
    LET before(i) == Len(WarningRows(SubSeq(infos, 1, i - 1), 1, 0))
    IN  infos[CHOOSE i \in DOMAIN infos :
                  before(i) <= label /\ label < before(i) + Len(infos[i].polygons)]

\* C25: severity, warning type and probability of every record are the
\* parameters 0, 1 (after the semicolon) and 2 of the record's own info block.
C25_OwnParameters ==
    (WarningsReturned /\ Len(xml_files) = 1) =>
        \A k \in DOMAIN df_warnings.rows :
            LET info == InfoOfLabel(xml_files[1].infos, df_warnings.rows[k].label)
            IN  /\ df_warnings.rows[k].severity = info.parameter[1]
                /\ df_warnings.rows[k].type_warning = info.parameter[2][2]
                /\ df_warnings.rows[k].probability = info.parameter[3]

\* the document cannot be parsed: malformed XML or a missing required field
FailsToParse(doc) == ~WellFormedDocument(doc)

\* the records of the documents that parse, in archive order
RECURSIVE RecordsInOrder(_)
RecordsInOrder(files) ==
    IF files = <<>> THEN <<>>
    ELSE (IF ParseXmlContent(Head(files)).kind = "frame"
          THEN ParseXmlContent(Head(files)).rows ELSE <<>>)
             \o RecordsInOrder(Tail(files))

\* C26: a document whose parsing fails is skipped: the outcome is the one of
\* the archive without it, and the records of the documents before and
\* after it are returned.
C26_FailingDocumentSkipped ==
    WarningsDone =>
        /\ df_warnings = GetDfWarningsOf(SelectSeq(xml_files, LAMBDA doc : ~FailsToParse(doc)))
        /\ WarningsReturned => df_warnings.rows = RecordsInOrder(xml_files)
        /\ RecordsInOrder(xml_files) # <<>> => WarningsReturned

C26_Witness ==
    /\ WarningsReturned
    /\ Len(xml_files) = 3
    /\ FailsToParse(xml_files[2])
    /\ ~FailsToParse(xml_files[1]) /\ ~FailsToParse(xml_files[3])
    /\ Len(df_warnings.rows) = 2
    /\ BuiltFrom(df_warnings.rows[1], xml_files[1].infos[1])
    /\ BuiltFrom(df_warnings.rows[2], xml_files[3].infos[1])
    /\ df_warnings.rows[1].area # df_warnings.rows[2].area

\* no document of the archive can yield a record: unreadable, or all its
\* blocks green, or all its blocks in another language
YieldsNothing(doc) ==
    \/ FailsToParse(doc)
    \/ \A i \in DOMAIN doc.infos : OwnSeverity(doc.infos[i]) = "verde"
    \/ \A i \in DOMAIN doc.infos : doc.infos[i].language # "es-ES"

\* C27: an archive without documents, or whose documents all yield no
\* record, gives an empty record set and no exception.
C27_EmptyArchiveEmptySet ==
    (WarningsDone /\ \A d \in DOMAIN xml_files : YieldsNothing(xml_files[d])) =>
        WarningsReturned /\ df_warnings.rows = <<>>

(***************************************************************************)
(* The deduplication step of parse_xml_content on its own                  *)
(***************************************************************************)
\* the longest frame the step is applied to
MaxFrameRows == 3

\* rows as they stand before line 76: of one language and one severity per
\* document, differing in description, times and polygon
FrameRows ==
    {[description |-> Info("es-ES", sev, c, 1).description,
      severity |-> sev,
      datetime_ini |-> ToMadrid(Info("es-ES", sev, c, 1).onset),
      datetime_end |-> ToMadrid(Info("es-ES", sev, c, 1).expires),
      polygon |-> <<c, j>>] :
        sev \in {"amarillo", "naranja"}, c \in Contents, j \in 1..MaxPolygons}

InitDedup ==
    /\ AdapterIdle
    /\ NumericIdle
    /\ DatesIdle
    /\ TablesIdle
    /\ CoordIdle
    /\ WarnIdle
    /\ dedup_in \in UNION {[1..n -> FrameRows] : n \in 1..MaxFrameRows}
    /\ dedup_out = <<>>

\* one more application of the step, to the input or to its last output
ApplyDropDuplicates ==
    /\ Len(dedup_out) < 2
    /\ dedup_out' = Append(dedup_out,
                           DropDuplicates(IF dedup_out = <<>> THEN dedup_in
                                          ELSE dedup_out[Len(dedup_out)]))
    /\ UNCHANGED <<adapterVars, numVars, dateVars, tableVars, coordVars, warnVars, dedup_in>>

SpecDedup == InitDedup /\ [][ApplyDropDuplicates]_vars

Plotted == plotted.kind # "pending"

\* the record's expiry instant is earlier than the current instant
Expired(row) ==
    \/ row.datetime_end.day < now.day
    \/ row.datetime_end.day = now.day /\ row.datetime_end.hour < now.hour

\* C29: plot_aemet_warnings retains exactly the records whose onset day is
\* on or before the target date and whose expiry day is on or after it,
\* and for today's date none that has already expired.
C29_RetainedOnDate ==
    (Plotted /\ WarningsReturned) =>
        /\ plotted.kind = "mapped"
        /\ plotted.rows =
               SelectSeq(df_warnings.rows,
                         LAMBDA r : /\ r.datetime_ini.day <= date.day
                                    /\ r.datetime_end.day >= date.day
                                    /\ ((date.day = now.day /\ date.hour = 0) => ~Expired(r)))

\* the colour of each severity level
LevelColour(level) ==
    IF level = 1 THEN "#f4e72a"
    ELSE IF level = 2 THEN "#f4a72a"
    ELSE IF level = 3 THEN "#f42a2a"
    ELSE "#ffffff"

\* the severity levels of the retained records of an area
AreaLevels(area) ==
    {plotted.rows[k].severity_level : k \in {j \in DOMAIN plotted.rows : plotted.rows[j].area = area}}

InitialErrorBody(r) == InitialHandled(r) /\ ErrorBody(r)

\* C32: in get_historical_data an initial response with HTTP 200 and an
\* estado other than 200 ends the chunk at once exactly when its descripcion
\* starts with "No hay datos": retries is untouched, nothing is appended, and
\* the only thing that follows is the cool-down sleep and the head of the for
\* loop. With any other descripcion the attempt counts as one retry: retries
\* grows by one, the adapter sleeps wait_time, stays on the same chunk, and
\* (the retry budget lasting) the next request is for the same URL.
C32_Step ==
    /\ (Hist /\ pc = "get" /\ InitialErrorBody(last')) =>
          /\ data' = data /\ count' = count
          /\ IF last'.desc = "nodata"
             THEN pc' = "after" /\ retries' = retries /\ slept' = 0
             ELSE /\ pc' = "while" /\ retries' = retries + 1
                  /\ slept' = wait_time /\ lastSleep' = wait_time
    /\ (Hist /\ pc = "after" /\ InitialErrorBody(last) /\ last.desc = "nodata") =>
          /\ pc' = "for" /\ count' = count /\ attempts' = attempts
          /\ slept' = wait_time \div 2
    /\ (Hist /\ pc = "while" /\ attempts >= 1 /\ InitialErrorBody(last)
            /\ HistLoopGuard(retries)) =>
          /\ last.desc # "nodata"
          /\ pc' = "get" /\ count' = count /\ attempts' = Sat(attempts)

C32_State ==
    (Hist /\ pc = "get" /\ InitialErrorBody(last) /\ last.desc = "nodata")
        => (attempts = 1 /\ retries = 1)

C32_NoDataPrefixEndsChunk == []C32_State /\ [][C32_Step]_vars

C32_Witness ==
    /\ Hist /\ pc = "get" /\ count = 1 /\ attempts = 2 /\ retries = 2
    /\ InitialErrorBody(last) /\ last.desc = "other" /\ slept = wait_time

\* C33: an HTTP 401 or 404 answer to the initial request of a chunk makes
\* get_historical_data abandon the chunk: the request that follows such an
\* answer is the first request of the next chunk.
C33_AuthOrMissingNextChunk ==
    (Hist /\ pc = "get" /\ InitialHandled(last) /\ ~last.err /\ last.status \in {401, 404})
        => attempts = 1

MetaHandled(r) == r.kind = "meta"

\* C34: get_station_extreme_vals returns its pair only when, in the pass that
\* returns, the datos GET answered 200 (so that the values table was assigned
\* in that pass) and the metadatos GET answered 200; and it never reads the
\* values table while it is unassigned.
C34_ValuesOfSamePass ==
    adapter = "extremes" =>
        /\ (pc = "done" /\ result.kind = "table") =>
              /\ MetaHandled(last) /\ ~last.err /\ last.status = 200
              /\ vals.pass = attempts
        /\ (pc = "raised" /\ MetaHandled(last) /\ ~last.err
              /\ last.status = 200 /\ last.body = "array") => vals.pass # 0

\* C35: get_station_normal_vals returns its pair only after the metadatos GET
\* itself answered HTTP 200.
C35_MetadataStatusChecked ==
    (adapter = "normals" /\ pc = "done" /\ result.kind = "table")
        => (MetaHandled(last) /\ ~last.err /\ last.status = 200)

\* C36: in get_station_normal_vals and get_station_extreme_vals one pass of
\* the retry loop adds at most 1 to retries, so retries never exceeds the
\* number of passes begun, and the loop is only left by exhaustion after
\* single_max_retries + 1 initial GETs.
C36_OneIncrementPerPass ==
    adapter \in {"normals", "extremes"} =>
        /\ retries <= attempts
        /\ ~SingleLoopGuard(retries) => attempts >= single_max_retries + 1

\* C37: in get_historical_data, once the first chunk has been taken,
\* 1 <= retries <= max_retries + 1, and count <= len(urls); every row of the
\* accumulated data belongs to a chunk already taken, rows are ordered by
\* chunk and no (chunk, index) pair occurs twice.
C37_State ==
    Hist =>
        /\ count <= NumUrls
        /\ count >= 1 => (1 <= retries /\ retries <= max_retries + 1)
        /\ \A i \in 1..Len(data) : 1 <= data[i].chunk /\ data[i].chunk <= count
        /\ \A i, j \in 1..Len(data) :
              i < j => \/ data[i].chunk < data[j].chunk
                       \/ (data[i].chunk = data[j].chunk /\ data[i].i < data[j].i)

\* C37 (steps): the accumulated data only grows at its end, by the payload of
\* the current chunk, which ends the chunk's loop; no step removes, replaces
\* or reorders rows.
C37_Step ==
    Hist =>
        /\ Len(data') >= Len(data)
        /\ SubSeq(data', 1, Len(data)) = data
        /\ data' # data =>
              /\ pc = "datos" /\ pc' = "after"
              /\ \A i \in 1..Len(data) : data[i].chunk < count
              /\ \A i \in (Len(data) + 1)..Len(data') : data'[i].chunk = count

C37_BoundsAndAppendOnly == []C37_State /\ [][C37_Step]_vars

C37_Witness ==
    /\ Hist /\ pc = "after" /\ count = 2 /\ retries = max_retries + 1
    /\ Len(data) >= 1 /\ data[1].chunk = 1

Warn == adapter = "warnings"

ThisCall(fs) == \A f \in fs : f.call = "this"

\* C38: download_aemet_warnings has removed every file of the data directory
\* by the time its first request is issued; from then on the directory holds
\* only files written by this call; when the call is over it holds at most
\* one .tar archive and, besides it, only that archive's extracted members;
\* and when no download succeeded (retries exhausted, or an exception ended
\* the call) it holds no file at all, whatever was there before.
C38_DirectoryHoldsThisCallOnly ==
    Warn =>
        /\ pc # "entry" => (directorio.exists /\ ThisCall(directorio.files))
        /\ (pc = "get" /\ attempts = 1) => directorio.files = {}
        /\ pc = "done" =>
              /\ Cardinality({f \in directorio.files : f.kind = "tar"}) <= 1
              /\ \A f \in directorio.files : f.kind = "xml" =>
                    \E t \in directorio.files : t.kind = "tar" /\ f.id <= t.docs
        /\ (pc \in {"done", "raised"} /\ ~(DatosHandled(last) /\ ~last.err /\ last.status = 200))
              => directorio.files = {}

\* the archive of an earlier call and its documents were removed, and every
\* attempt of this call failed
C38_Witness ==
    /\ Warn /\ pc = "done" /\ ~SingleLoopGuard(retries)
    /\ directorio.files = {}
    /\ \E f \in directorio.unlinked : f.kind = "tar"
    /\ \E f \in directorio.unlinked : f.kind = "xml"

(***************************************************************************)
(* _convert_columns_to_numeric                                             *)
(***************************************************************************)
\* rows of the frames passed in
MaxCells == 2

\* A cell of a column of strings: a text, one character per element, or a
\* missing value (NaN).
Text(t) == [na |-> FALSE, text |-> t]
Missing == [na |-> TRUE, text |-> <<>>]

\* A float: NaN, or num / den with den a power of ten.
Float(n, d) == [nan |-> FALSE, num |-> n, den |-> d]
NaN == [nan |-> TRUE, num |-> 0, den |-> 1]

cols_to_num ==
    {"altitud", "tmed", "tmax", "tmin", "prec", "dir", "velmedia",
     "racha", "sol", "presMax", "presMin", "hrMedia", "hrMax", "hrMin"}

\* the columns of the frames passed in: two of cols_to_num and one that is not
ColumnNames == {"prec", "tmed", "indicativo"}

\* values of the API: decimal comma, integers, a negative value, a value
\* already written with a point
NumericTexts ==
    {<<"1", "2", ",", "5">>, <<"3">>, <<"-", "1", ",", "4">>, <<"7", ".", "2">>}

\* precipitation: also 0,0, the trace amount Ip and the accumulated Acum
PrecCells ==
    {Text(t) : t \in NumericTexts \cup {<<"0", ",", "0">>, <<"I", "p">>, <<"A", "c", "u", "m">>}}
        \cup {Missing}

NumericCells == {Text(t) : t \in NumericTexts}

StationCells == {Text(<<"B", "2", "2", "8">>)}

\* pd.DataFrame: the columns that are present, all of the same length
MakeFrame(p, t, k) ==
    LET col == ("prec" :> p) @@ ("tmed" :> t) @@ ("indicativo" :> k)
    IN  [c \in {x \in ColumnNames : col[x] # <<>>} |-> col[c]]

\* a column of n cells, or <<>> for a column that is not there
Columns(cells, n) == [1..n -> cells] \cup {<<>>}

\* .astype(str): a missing value becomes the text nan
AsTypeStr(cell) == IF cell.na THEN Text(<<"n", "a", "n">>) ELSE cell

StartsWith(t, pat) == Len(t) >= Len(pat) /\ SubSeq(t, 1, Len(pat)) = pat

\* str.replace(pat, repl) with a literal pattern: every occurrence, from the
\* left, without overlap
RECURSIVE Replace(_, _, _)
Replace(t, pat, repl) ==
    IF t = <<>> THEN <<>>
    ELSE IF StartsWith(t, pat) THEN repl \o Replace(SubSeq(t, Len(pat) + 1, Len(t)), pat, repl)
    ELSE <<t[1]>> \o Replace(Tail(t), pat, repl)

\* Series.str.replace: missing values stay missing
StrReplace(cell, pat, repl) ==
    IF cell.na THEN cell ELSE Text(Replace(cell.text, pat, repl))

\* df["prec"].astype(str).str.replace("Ip", "0.0", regex=False)
ReplaceSentinel(cell) == StrReplace(AsTypeStr(cell), <<"I", "p">>, <<"0", ".", "0">>)

DecimalPoint_kept(cell) == cell

\* df[col].str.replace(",", ".")
DecimalPoint(cell) == StrReplace(cell, <<",">>, <<".">>)

RECURSIVE Pow10(_)
Pow10(k) == IF k = 0 THEN 1 ELSE 10 * Pow10(k - 1)

AllDigits(t) == \A i \in DOMAIN t : IsDigit(t[i])

\* position of the first point of t (0: none)
PointAt(t) ==
    IF \E i \in DOMAIN t : t[i] = "." THEN CHOOSE i \in DOMAIN t : t[i] = "." /\ \A j \in 1..(i - 1) : t[j] # "."
    ELSE 0

IntPart(t) == IF PointAt(t) = 0 THEN t ELSE SubSeq(t, 1, PointAt(t) - 1)
FracPart(t) == IF PointAt(t) = 0 THEN <<>> ELSE SubSeq(t, PointAt(t) + 1, Len(t))

\* float(text) accepts: blanks around, one sign, digits with at most one
\* point and at least one digit, and the text nan
FloatOk(t) ==
    LET u == Unsigned(t)
    IN  \/ u = <<"n", "a", "n">>
        \/ /\ AllDigits(IntPart(u)) /\ AllDigits(FracPart(u))
           /\ Len(IntPart(u)) + Len(FracPart(u)) >= 1

FloatOf(t) ==
    LET u == Unsigned(t)
        s == Strip(t)
        m == Magnitude(IntPart(u)) * Pow10(Len(FracPart(u))) + Magnitude(FracPart(u))
    IN  IF u = <<"n", "a", "n">> THEN NaN
        ELSE Float(IF s[1] = "-" THEN -m ELSE m, Pow10(Len(FracPart(u))))

\* .astype(float) of one cell
CellOk(cell) == cell.na \/ FloatOk(cell.text)
AsTypeFloat(cell) == IF cell.na THEN NaN ELSE FloatOf(cell.text)

\* the frame after line 35
AfterSentinel(f) ==
    IF "prec" \in DOMAIN f
    THEN [c \in DOMAIN f |->
            IF c = "prec" THEN [i \in DOMAIN f[c] |-> ReplaceSentinel(f[c][i])] ELSE f[c]]
    ELSE f

\* _convert_columns_to_numeric(df): the frame returned, or the ValueError of
\* astype(float) on a text that is not a number
ConvertColumnsToNumericOf(f) ==
    LET g == AfterSentinel(f)
        targets == cols_to_num \cap DOMAIN g
    IN  IF \E c \in targets : \E i \in DOMAIN g[c] : ~CellOk(DecimalPoint(g[c][i]))
        THEN [kind |-> "raised", cols |-> <<>>]
        ELSE [kind |-> "frame",
              cols |-> [c \in DOMAIN g |->
                          IF c \in targets
                          THEN [i \in DOMAIN g[c] |-> AsTypeFloat(DecimalPoint(g[c][i]))]
                          ELSE g[c]]]

InitNumeric ==
    /\ AdapterIdle
    /\ DatesIdle
    /\ TablesIdle
    /\ CoordIdle
    /\ WarnIdle
    /\ DedupIdle
    /\ \E n \in 1..MaxCells :
          \E p \in Columns(PrecCells, n), t \in Columns(NumericCells, n),
             k \in Columns(StationCells, n) : df_raw = MakeFrame(p, t, k)
    /\ df_numeric = [kind |-> "pending", cols |-> <<>>]

ConvertColumnsToNumeric ==
    /\ df_numeric.kind = "pending"
    /\ df_numeric' = ConvertColumnsToNumericOf(df_raw)
    /\ UNCHANGED <<adapterVars, dateVars, tableVars, coordVars, warnVars, dedupVars, df_raw>>

SpecNumeric == InitNumeric /\ [][ConvertColumnsToNumeric]_vars

\* the trace-amount sentinel
IsSentinel(cell) == ~cell.na /\ cell.text = <<"I", "p">>

CommaAt(t) == CHOOSE i \in DOMAIN t : t[i] = ","

\* digits, one comma, digits, with an optional minus sign in front
CommaDecimal(cell) ==
    /\ ~cell.na
    /\ Cardinality({i \in DOMAIN cell.text : cell.text[i] = ","}) = 1
    /\ LET t == cell.text
           k == CommaAt(t)
           whole == IF t[1] = "-" THEN SubSeq(t, 2, k - 1) ELSE SubSeq(t, 1, k - 1)
       IN  whole # <<>> /\ AllDigits(whole)
           /\ k < Len(t) /\ AllDigits(SubSeq(t, k + 1, Len(t)))

\* the number a comma-decimal text denotes, the comma being the decimal point
CommaValue(cell) ==
    LET t == cell.text
        k == CommaAt(t)
        neg == t[1] = "-"
        whole == IF neg THEN SubSeq(t, 2, k - 1) ELSE SubSeq(t, 1, k - 1)
        frac == SubSeq(t, k + 1, Len(t))
        m == Magnitude(whole) * Pow10(Len(frac)) + Magnitude(frac)
    IN  Float(IF neg THEN -m ELSE m, Pow10(Len(frac)))

\* every cell of the numeric columns is a number, a comma-decimal text, a
\* missing precipitation or the sentinel in the precipitation column
Convertible(f) ==
    \A c \in cols_to_num \cap DOMAIN f : \A i \in DOMAIN f[c] :
        \/ c = "prec" /\ (f[c][i].na \/ IsSentinel(f[c][i]))
        \/ ~f[c][i].na /\ f[c][i].text \in NumericTexts \cup {<<"0", ",", "0">>}

\* C31: _convert_columns_to_numeric returns a frame for every frame whose
\* numeric columns hold numbers, comma-decimal texts and the sentinel Ip; in
\* the frame it returns every precipitation cell that was Ip is 0.0, every
\* cell of a numeric column that was a comma-decimal text is the number read
\* with the comma as decimal point, every cell of the numeric columns is a
\* float (no sentinel remains), and the other columns are as they were.
C31_SentinelAndDecimalComma ==
    df_numeric.kind # "pending" =>
        /\ Convertible(df_raw) => df_numeric.kind = "frame"
        /\ df_numeric.kind = "frame" =>
              /\ DOMAIN df_numeric.cols = DOMAIN df_raw
              /\ \A c \in DOMAIN df_raw :
                    IF c \in cols_to_num
                    THEN \A i \in DOMAIN df_raw[c] :
                            LET v == df_numeric.cols[c][i]
                            IN  /\ v.nan \/ v.den >= 1
                                /\ (c = "prec" /\ IsSentinel(df_raw[c][i])) => (~v.nan /\ v.num = 0)
                                /\ CommaDecimal(df_raw[c][i]) => v = CommaValue(df_raw[c][i])
                    ELSE df_numeric.cols[c] = df_raw[c]

C31_Witness ==
    /\ df_numeric.kind = "frame"
    /\ DOMAIN df_raw = ColumnNames
    /\ Len(df_raw["prec"]) = 2
    /\ IsSentinel(df_raw["prec"][1])
    /\ df_raw["prec"][2] = Text(<<"1", "2", ",", "5">>)
    /\ df_numeric.cols["prec"][1] = Float(0, 10)
    /\ df_numeric.cols["prec"][2] = Float(125, 10)
    /\ df_raw["tmed"][1] = Text(<<"-", "1", ",", "4">>)
    /\ df_numeric.cols["tmed"][1] = Float(-14, 10)

====
